---- MODULE Spec2Model ----
(***************************************************************************)
(* Booking-summary wizard (BookingSummary), checkout form (CheckoutForm)   *)
(* and the checkout-session POST handler, as state machines.               *)
(*                                                                         *)
(* Every event handler of the single-threaded UI is one atomic action;     *)
(* the awaited delegate call of handlePayment splits that handler in two:  *)
(* the part up to the await (CFnextStep on the final step) and the         *)
(* continuation (DelegateResolve).  The POST handler is split at its two   *)
(* awaited provider calls.                                                 *)
(***************************************************************************)
EXTENDS Integers, Sequences, FiniteSets, TLC

\* ---------------------------------------------------------------- bounds
MaxStops == 1
MaxStopPoints == 1

\* ------------------------------------------------------------ input sets
\* field contents: the empty string and a non-empty one
Strings == {"", "x"}
Fields == {"name", "email", "phone"}
Digits == {"1", "2"}

Null == "<null>"

\* ------------------------------------------------------------- variables
VARIABLES
  flow,          \* which component is the root: "summary" | "checkout"
  stops,         \* BookingSummary prop: length of the stops list
  bsStep,        \* BookingSummary currentStep
  totalSteps,    \* BookingSummary totalSteps
  showCheckout,  \* BookingSummary showCheckout
  contactInfo,   \* BookingSummary contactInfo
  cfMounted,     \* a CheckoutForm instance is rendered
  offerType,     \* CheckoutForm prop
  offerId,       \* CheckoutForm prop (sequence of characters)
  hasOnSuccess,  \* CheckoutForm prop onSuccess is supplied
  cfStep,        \* CheckoutForm currentStep
  loading,       \* CheckoutForm loading
  error,         \* CheckoutForm error (Null or a message)
  success,       \* CheckoutForm success
  formData,      \* CheckoutForm formData
  pending,       \* the delegate call handlePayment is awaiting, or NoCall
  op,            \* the handler that ran last
  out,           \* what the delegate call answered, when op = "resolve"
  calls,         \* external calls made by the handler that ran last
  hist,          \* what has happened so far: a submission, a delegate call
  basePrice,     \* BookingSummary basePrice (base currency, whole units)
  selectedServices,      \* BookingSummary selectedServices
  selectedCurrency,      \* BookingSummary selectedCurrency (its code)
  showCurrencyDropdown,  \* BookingSummary showCurrencyDropdown
  route,         \* BookingSummary props origin, stops, destination, isReturn
  totalDistance, \* BookingSummary totalDistance
  postPc,        \* POST: position of the handler
  req,           \* POST: the request body being handled
  provider,      \* POST: payment-provider calls made for this request
  settled,       \* POST: what the provider call awaited last answered
  resp,          \* POST: the response returned for this request
  evaluations,   \* i18n bootstrap: times the module body has been evaluated
  initCalls,     \* i18n bootstrap: times i18n.init has been invoked
  initRunning,   \* i18n: initializations started and not yet completed
  isInitialized, \* i18n.isInitialized
  language,      \* i18n.language (Null before the first initialization)
  closed         \* the form's close callback was invoked during a pending call

uiVars == <<flow, stops, bsStep, totalSteps, showCheckout, contactInfo,
            cfMounted, offerType, offerId, hasOnSuccess, cfStep, loading,
            error, success, formData, pending, op, out, calls>>
postVars == <<postPc, req, provider, settled, resp>>
priceVars == <<basePrice, selectedServices, selectedCurrency, showCurrencyDropdown>>
distVars == <<route, totalDistance>>
i18nVars == <<evaluations, initCalls, initRunning, isInitialized, language>>
vars == <<uiVars, postVars, hist, priceVars, distVars, i18nVars, closed>>

\* --------------------------------------------------------------- helpers
EmptyContact == [name |-> "", email |-> "", phone |-> ""]

\* a || b on strings
Or(a, b) == IF a # "" THEN a ELSE b

AllFilled_NoPhone(f) == f.name # "" /\ f.email # ""

\* formData.name && formData.email && formData.phone
AllFilled(f) == f.name # "" /\ f.email # "" /\ f.phone # ""
AllEmpty(f) == f.name = "" /\ f.email = "" /\ f.phone = ""

CustomPrefix == <<"c", "u", "s", "t", "o", "m", "-">>

\* String.prototype.startsWith
startsWith(s, p) ==
  /\ Len(s) >= Len(p)
  /\ SubSeq(s, 1, Len(p)) = p

OfferTypes == {"fixed_offer", "empty_leg", "visa"}

OfferIds == { CustomPrefix \o <<"1">>,
              <<"o", "f", "f", "e", "r", "-", "1">>,
              <<"c", "u", "s", "t", "o", "m">>,
              <<>> }

SummaryOfferIds_Plain == { <<"o", "f", "f", "e", "r", "-", d>> : d \in Digits }

\* `custom-${Date.now()}`
SummaryOfferIds == { CustomPrefix \o <<d>> : d \in Digits }

NoCall == [fn |-> "none", offerId |-> <<>>, offerType |-> "", data |-> EmptyContact]

RequiredMsg == "Please fill in all required fields"
GenericMsg == "Payment failed. Please try again."
DelegateMsgs == {"declined"}

\* What an awaited delegate call can answer: a resolved result
\* { success, error } or a rejection with an Error or with another value.
Outcomes ==
  [kind : {"resolved"}, success : BOOLEAN, error : DelegateMsgs \cup {Null}]
  \cup [kind : {"rejectedError"}, success : {FALSE}, error : DelegateMsgs]
  \cup [kind : {"rejectedOther"}, success : {FALSE}, error : {Null}]

NoOutcome == [kind |-> "none", success |-> FALSE, error |-> Null]

\* useAuth() user and the userInfo prop, each possibly absent
UserInfos == [present : BOOLEAN, name : Strings, email : Strings, phone : Strings]
Users == [present : BOOLEAN, name : Strings, email : Strings]

\* useState initialiser of formData
InitFormData(userInfo, user) ==
  [ name  |-> Or(IF userInfo.present THEN userInfo.name ELSE "",
                 IF user.present THEN user.name ELSE ""),
    email |-> Or(IF userInfo.present THEN userInfo.email ELSE "",
                 IF user.present THEN user.email ELSE ""),
    phone |-> IF userInfo.present THEN userInfo.phone ELSE "" ]

\* setTotalSteps(stops.length > 0 ? 4 : 3)
StepsFor(n) == IF n > 0 THEN 4 ELSE 3

\* ------------------------------------------------ BookingSummary actions
BSisFormValid_EveryStep == AllFilled(contactInfo)

BSisFormValid ==
  IF bsStep = 3 THEN AllFilled(contactInfo) ELSE TRUE

CFisFormValid_Always == TRUE

CFisFormValid ==
  IF cfStep = 1 THEN AllFilled(formData) ELSE TRUE

cfState == <<cfMounted, offerType, offerId, hasOnSuccess, cfStep, loading,
             error, success, formData, pending>>
bsState == <<stops, bsStep, totalSteps, showCheckout, contactInfo>>

\* the parent passes a new stops list; the effect on [stops] runs
StopsChange ==
  /\ flow = "summary"
  /\ \E n \in 0..MaxStops :
       /\ stops' = n
       /\ totalSteps' = StepsFor(n)
  /\ op' = "stops"
  /\ out' = NoOutcome
  /\ calls' = <<>>
  /\ UNCHANGED <<flow, bsStep, showCheckout, contactInfo, cfState>>

BSNextTarget_Jump == totalSteps

BSNextTarget == IF bsStep < totalSteps THEN bsStep + 1 ELSE bsStep

\* the Next button: rendered while currentStep < totalSteps
BSnextStep ==
  /\ flow = "summary"
  /\ ~showCheckout
  /\ bsStep < totalSteps
  /\ BSisFormValid
  /\ bsStep' = BSNextTarget
  /\ op' = "bsNext"
  /\ out' = NoOutcome
  /\ calls' = <<>>
  /\ UNCHANGED <<flow, stops, totalSteps, showCheckout, contactInfo, cfState>>

\* the Request Quote button: rendered on the last step; CheckoutForm mounts
handleRequestQuote ==
  /\ flow = "summary"
  /\ ~showCheckout
  /\ ~(bsStep < totalSteps)
  /\ BSisFormValid
  /\ showCheckout' = TRUE
  /\ cfMounted' = TRUE
  /\ offerType' = "fixed_offer"
  /\ \E id \in SummaryOfferIds : offerId' = id
  /\ hasOnSuccess' = TRUE
  /\ cfStep' = 1
  /\ loading' = FALSE
  /\ error' = Null
  /\ success' = FALSE
  /\ \E user \in Users :
       formData' = InitFormData([present |-> TRUE, name |-> contactInfo.name,
                                 email |-> contactInfo.email,
                                 phone |-> contactInfo.phone], user)
  /\ op' = "requestQuote"
  /\ out' = NoOutcome
  /\ calls' = <<>>
  /\ UNCHANGED <<flow, stops, bsStep, totalSteps, contactInfo, pending>>

BSPrevTarget == IF bsStep > 1 THEN bsStep - 1 ELSE bsStep
BSPrevCalls_Always == <<"onBack">>
BSPrevCalls == IF bsStep > 1 THEN <<>> ELSE <<"onBack">>

\* the header arrow (always rendered) and the Back/Previous button
BSprevStep ==
  /\ flow = "summary"
  /\ bsStep' = BSPrevTarget
  /\ calls' = BSPrevCalls
  /\ op' = "bsPrev"
  /\ out' = NoOutcome
  /\ UNCHANGED <<flow, stops, totalSteps, showCheckout, contactInfo, cfState>>

\* the contact inputs are rendered on step 3
handleContactInfoChange ==
  /\ flow = "summary"
  /\ ~showCheckout
  /\ bsStep = 3
  /\ \E f \in Fields, v \in Strings :
       contactInfo' = [contactInfo EXCEPT ![f] = v]
  /\ op' = "bsInput"
  /\ out' = NoOutcome
  /\ calls' = <<>>
  /\ UNCHANGED <<flow, stops, bsStep, totalSteps, showCheckout, cfState>>

\* ------------------------------------------------------------- pricing
\* currencies: code and rate, the rate in hundredths
currencies ==
  << [code |-> "EUR", rate |-> 100],
     [code |-> "USD", rate |-> 108],
     [code |-> "GBP", rate |-> 85],
     [code |-> "CHF", rate |-> 95] >>

CurrencyCodes == { currencies[i].code : i \in 1..Len(currencies) }

\* the entry of the table with this code
CurrencyOf(code) ==
  currencies[CHOOSE i \in 1..Len(currencies) : currencies[i].code = code]

SERVICE_PRICES ==
  [airportTransfer |-> 250, catering |-> 350, concierge |-> 200, hotelBooking |-> 150]

Services == {"airportTransfer", "catering", "concierge", "hotelBooking"}

NoServices == [s \in Services |-> FALSE]

\* basePrice is computed from the itinerary by calculateTotalPrice
BasePrices == {10000, 12345}

\* Intl.NumberFormat with zero fraction digits: nearest integer, halves up;
\* x is given in hundredths
RoundHundredths(x) == (x + 50) \div 100

formatPrice_NoRate(price, code) == [currency |-> code, amount |-> price]

\* formatPrice: the amount shown and the currency it is shown in
formatPrice(price, code) ==
  [currency |-> code, amount |-> RoundHundredths(price * CurrencyOf(code).rate)]

getAdditionalServicesCost_NoHotel ==
  (IF selectedServices.airportTransfer THEN SERVICE_PRICES.airportTransfer ELSE 0)
  + (IF selectedServices.catering THEN SERVICE_PRICES.catering ELSE 0)
  + (IF selectedServices.concierge THEN SERVICE_PRICES.concierge ELSE 0)

getAdditionalServicesCost ==
  (IF selectedServices.airportTransfer THEN SERVICE_PRICES.airportTransfer ELSE 0)
  + (IF selectedServices.catering THEN SERVICE_PRICES.catering ELSE 0)
  + (IF selectedServices.concierge THEN SERVICE_PRICES.concierge ELSE 0)
  + (IF selectedServices.hotelBooking THEN SERVICE_PRICES.hotelBooking ELSE 0)

additionalServicesCost == getAdditionalServicesCost
totalPrice == basePrice + additionalServicesCost

\* Math.floor(basePrice * 0.9), Math.ceil(basePrice * 1.1)
minPrice == (basePrice * 9) \div 10
maxPrice == (basePrice * 11 + 9) \div 10

\* `${formatPrice(minPrice)} - ${formatPrice(maxPrice)}`
priceRange ==
  <<formatPrice(minPrice, selectedCurrency), formatPrice(maxPrice, selectedCurrency)>>

\* Total (Estimated): formatPrice(totalPrice)
displayedTotal == formatPrice(totalPrice, selectedCurrency)

\* props of the CheckoutForm that BookingSummary renders:
\* price={totalPrice} currency={selectedCurrency.code}
CheckoutPrice == totalPrice
CheckoutCurrency == selectedCurrency

\* Price Summary of the checkout form: {currency}{price.toLocaleString()}
priceSummary == [currency |-> CheckoutCurrency, amount |-> CheckoutPrice]

navState == <<flow, bsState, cfState>>

\* the currency button of step 1
toggleCurrencyDropdown ==
  /\ flow = "summary"
  /\ ~showCheckout
  /\ bsStep = 1
  /\ showCurrencyDropdown' = ~showCurrencyDropdown
  /\ op' = "dropdown"
  /\ out' = NoOutcome
  /\ calls' = <<>>
  /\ UNCHANGED <<navState, basePrice, selectedServices, selectedCurrency>>

\* an entry of the open dropdown
selectCurrency ==
  /\ flow = "summary"
  /\ ~showCheckout
  /\ bsStep = 1
  /\ showCurrencyDropdown
  /\ \E c \in CurrencyCodes : selectedCurrency' = c
  /\ showCurrencyDropdown' = FALSE
  /\ op' = "currency"
  /\ out' = NoOutcome
  /\ calls' = <<>>
  /\ UNCHANGED <<navState, basePrice, selectedServices>>

\* mousedown outside the dropdown, while its element is rendered
handleClickOutside ==
  /\ flow = "summary"
  /\ ~showCheckout
  /\ bsStep = 1
  /\ showCurrencyDropdown' = FALSE
  /\ op' = "clickOutside"
  /\ out' = NoOutcome
  /\ calls' = <<>>
  /\ UNCHANGED <<navState, basePrice, selectedServices, selectedCurrency>>

\* a checkbox of step 2
handleServiceToggle ==
  /\ flow = "summary"
  /\ ~showCheckout
  /\ bsStep = 2
  /\ \E service \in Services :
       selectedServices' =
         [selectedServices EXCEPT ![service] = ~selectedServices[service]]
  /\ op' = "toggle"
  /\ out' = NoOutcome
  /\ calls' = <<>>
  /\ UNCHANGED <<navState, basePrice, selectedCurrency, showCurrencyDropdown>>

\* ------------------------------------------------------------ distance
\* Locations: coordinates in ten-thousandths of a degree, each possibly
\* absent
Paris == [name |-> "Paris", hasLat |-> TRUE, lat |-> 488566, hasLng |-> TRUE, lng |-> 23522]
London == [name |-> "London", hasLat |-> TRUE, lat |-> 515074, hasLng |-> TRUE, lng |-> -1278]
Greenwich == [name |-> "Greenwich", hasLat |-> TRUE, lat |-> 514779, hasLng |-> TRUE, lng |-> 0]
Equator == [name |-> "Equator", hasLat |-> TRUE, lat |-> 0, hasLng |-> TRUE, lng |-> 100000]
NoLat == [name |-> "NoLat", hasLat |-> FALSE, lat |-> 0, hasLng |-> TRUE, lng |-> 50000]
NoLng == [name |-> "NoLng", hasLat |-> TRUE, lat |-> 400000, hasLng |-> FALSE, lng |-> 0]

Locations == {Paris, London, Greenwich, Equator, NoLat, NoLng}

\* the stops lists
StopLists == UNION { [1..n -> Locations] : n \in 0..MaxStopPoints }

\* R * c of the haversine formula for two locations with coordinates, in
\* metres
Haversine(p, q) ==
  LET pair == {p.name, q.name}
  IN CASE pair = {"Paris", "London"} -> 343556
       [] pair = {"Paris", "Greenwich"} -> 336152
       [] pair = {"Paris", "Equator"} -> 5481952
       [] pair = {"London", "Greenwich"} -> 9436
       [] pair = {"London", "Equator"} -> 5805923
       [] pair = {"Greenwich", "Equator"} -> 5800767
       [] OTHER -> 0

\* !point?.lat
NoLatitude(p) == ~p.hasLat \/ p.lat = 0

\* the pair is skipped by the loop
Skipped(p, q) == NoLatitude(p) \/ NoLatitude(q)

\* the arithmetic on the pair yields NaN: a longitude is undefined
YieldsNaN(p, q) == ~Skipped(p, q) /\ (~p.hasLng \/ ~q.hasLng)

\* totalDistance after the loop over the first k pairs of points, in metres
RECURSIVE LoopSum(_, _)
LoopSum(points, k) ==
  IF k = 0 THEN 0
  ELSE LoopSum(points, k - 1)
       + (IF Skipped(points[k], points[k + 1]) THEN 0
          ELSE Haversine(points[k], points[k + 1]))

\* Math.round of a length in metres, in kilometres
MathRound(m) == (m + 500) \div 1000

Doubled_Never(m, isReturn) == m

\* isReturn ? totalDistance * 2 : totalDistance
Doubled(m, isReturn) == IF isReturn THEN m * 2 ELSE m

NotANumber == [nan |-> TRUE, km |-> 0]

calculateTotalDistance(origin, stopList, destination, isReturn) ==
  IF NoLatitude(origin) \/ NoLatitude(destination)
    THEN [nan |-> FALSE, km |-> 0]
    ELSE LET points == <<origin>> \o stopList \o <<destination>>
         IN IF \E i \in 1..(Len(points) - 1) : YieldsNaN(points[i], points[i + 1])
              THEN NotANumber
              ELSE [nan |-> FALSE,
                    km |-> MathRound(Doubled(LoopSum(points, Len(points) - 1),
                                             isReturn))]

Routes ==
  [origin : Locations, stops : StopLists, destination : Locations, isReturn : BOOLEAN]

\* the component renders with these props
Rendered(r) ==
  /\ route' = r
  /\ totalDistance' = calculateTotalDistance(r.origin, r.stops, r.destination, r.isReturn)
  /\ stops' = Len(r.stops)
  /\ totalSteps' = StepsFor(Len(r.stops))
  /\ op' = "props"
  /\ out' = NoOutcome
  /\ calls' = <<>>
  /\ UNCHANGED <<flow, bsStep, showCheckout, contactInfo, cfState, hist,
                 postVars, priceVars, i18nVars, closed>>

\* the parent passes another origin, destination, stops list or isReturn
OriginChange == \E p \in Locations : Rendered([route EXCEPT !.origin = p])
DestinationChange == \E p \in Locations : Rendered([route EXCEPT !.destination = p])
StopListChange == \E l \in StopLists : Rendered([route EXCEPT !.stops = l])
ReturnChange == Rendered([route EXCEPT !.isReturn = ~route.isReturn])

\* -------------------------------------------------- CheckoutForm actions
\* onClose: BookingSummary passes its own onBack
OnCloseCalls == IF flow = "summary" THEN <<"onBack">> ELSE <<"onClose">>

handleInputChange ==
  /\ cfMounted
  /\ ~success
  /\ cfStep = 1
  /\ \E f \in Fields, v \in Strings :
       formData' = [formData EXCEPT ![f] = v]
  /\ op' = "cfInput"
  /\ out' = NoOutcome
  /\ calls' = <<>>
  /\ UNCHANGED <<flow, bsState, cfMounted, offerType, offerId, hasOnSuccess,
                 cfStep, loading, error, success, pending>>

Route_AnyFixed(type, id) ==
  IF type \in {"fixed_offer", "empty_leg"}
    THEN "createCheckoutSession"
    ELSE "sendPaymentRequest"

\* which delegate operation handlePayment awaits
Route(type, id) ==
  IF type = "fixed_offer" /\ ~startsWith(id, CustomPrefix)
    THEN "createCheckoutSession"
    ELSE IF type = "empty_leg"
           THEN "createCheckoutSession"
           ELSE "sendPaymentRequest"

\* handlePayment up to its await
handlePayment ==
  IF ~AllFilled(formData)
    THEN /\ error' = RequiredMsg
         /\ loading' = FALSE
         /\ calls' = <<>>
         /\ UNCHANGED pending
    ELSE /\ error' = Null
         /\ loading' = TRUE
         /\ pending' = [fn |-> Route(offerType, offerId), offerId |-> offerId,
                        offerType |-> offerType, data |-> formData]
         /\ calls' = <<Route(offerType, offerId)>>

CFNextTarget == cfStep + 1

BeforeFinalStep_OffByOne == cfStep < 1

\* currentStep < 2
BeforeFinalStep == cfStep < 2

SubmitDisabled_NoLoading == ~CFisFormValid

\* disabled={loading || !isFormValid()}
SubmitDisabled == loading \/ ~CFisFormValid

\* the Continue / Submit Request button
CFnextStep ==
  /\ cfMounted
  /\ ~success
  /\ ~SubmitDisabled
  /\ IF BeforeFinalStep
       THEN /\ cfStep' = CFNextTarget
            /\ calls' = <<>>
            /\ UNCHANGED <<loading, error, pending>>
       ELSE /\ handlePayment
            /\ UNCHANGED cfStep
  /\ op' = "cfNext"
  /\ out' = NoOutcome
  /\ UNCHANGED <<flow, bsState, cfMounted, offerType, offerId, hasOnSuccess,
                 success, formData>>

CFPrevTarget == IF cfStep > 1 THEN cfStep - 1 ELSE cfStep
CFPrevCalls_Submit == IF cfStep > 1 THEN <<>> ELSE <<"sendPaymentRequest">>
CFPrevCalls == IF cfStep > 1 THEN <<>> ELSE OnCloseCalls

\* the Cancel / Back button (not disabled while loading)
CFprevStep ==
  /\ cfMounted
  /\ ~success
  /\ cfStep' = CFPrevTarget
  /\ calls' = CFPrevCalls
  /\ op' = "cfPrev"
  /\ out' = NoOutcome
  /\ UNCHANGED <<flow, bsState, cfMounted, offerType, offerId, hasOnSuccess,
                 loading, error, success, formData, pending>>

\* the Close button of the success display
SuccessClose ==
  /\ cfMounted
  /\ success
  /\ calls' = OnCloseCalls
  /\ op' = "cfClose"
  /\ out' = NoOutcome
  /\ UNCHANGED <<flow, bsState, cfState>>

CaughtMessage_NoFallback(o) ==
  CASE o.kind = "resolved" -> o.error
    [] o.kind = "rejectedError" -> o.error
    [] OTHER -> Null

\* the message the catch block shows for what the try block threw
CaughtMessage(o) ==
  CASE o.kind = "resolved" -> o.error
    [] o.kind = "rejectedError" -> o.error
    [] OTHER -> GenericMsg

\* the try block throws: the call rejected or answered with an error
Throws(o) == o.kind # "resolved" \/ o.error # Null

\* setSuccess(true) is reached
Succeeds(fn, o) ==
  fn = "sendPaymentRequest" /\ ~Throws(o) /\ o.success

\* onSuccess of BookingSummary: setShowCheckout(false) unmounts the form
SummaryOnSuccess ==
  /\ showCheckout' = FALSE
  /\ cfMounted' = FALSE
  /\ offerType' = "fixed_offer"
  /\ offerId' = <<>>
  /\ hasOnSuccess' = TRUE
  /\ cfStep' = 1
  /\ loading' = FALSE
  /\ error' = Null
  /\ success' = FALSE
  /\ formData' = EmptyContact
  /\ calls' = <<"onSuccess">>
  /\ UNCHANGED <<stops, bsStep, totalSteps, contactInfo>>

\* handlePayment after its await
DelegateResolve ==
  /\ pending # NoCall
  /\ \E o \in Outcomes :
       /\ out' = o
       /\ IF Succeeds(pending.fn, o)
            THEN IF flow = "summary"
                   THEN SummaryOnSuccess
                   ELSE /\ success' = TRUE
                        /\ calls' = IF hasOnSuccess THEN <<"onSuccess">> ELSE <<>>
                        /\ loading' = FALSE
                        /\ UNCHANGED <<bsState, cfMounted, offerType, offerId,
                                       hasOnSuccess, cfStep, error, formData>>
            ELSE /\ error' = IF Throws(o) THEN CaughtMessage(o) ELSE error
                 /\ loading' = FALSE
                 /\ calls' = <<>>
                 /\ UNCHANGED <<bsState, cfMounted, offerType, offerId,
                                hasOnSuccess, cfStep, success, formData>>
  /\ pending' = NoCall
  /\ op' = "resolve"
  /\ UNCHANGED flow

\* ------------------------------------------------- checkout-session POST
\* JavaScript values of the request body's fields
Undefined == [t |-> "undefined", s |-> "", n |-> 0]
Str(x) == [t |-> "string", s |-> x, n |-> 0]
Num(k) == [t |-> "number", s |-> "", n |-> k]

\* !v is false
Truthy(v) ==
  CASE v.t = "string" -> v.s # ""
    [] v.t = "number" -> v.n # 0
    [] OTHER -> FALSE

Lifetime == "partner-lifetime"

\* request bodies: objects with each field absent, falsy or set, and bodies
\* for which request.json() or the destructuring throws
Bodies ==
  [ valid    : {TRUE},
    tierId   : {Undefined, Str(""), Str(Lifetime), Str("gold")},
    tierType : {Undefined, Str("partner")},
    price    : {Undefined, Num(0), Num(100)},
    currency : {Undefined, Str(""), Str("EUR"), Num(5)},
    name     : {Undefined, Str(""), Str("Ann")},
    email    : {Undefined, Str(""), Str("a@b")} ]
  \cup
  [ valid    : {FALSE},
    tierId   : {Undefined}, tierType : {Undefined}, price : {Undefined},
    currency : {Undefined}, name : {Undefined}, email : {Undefined} ]

NoBody == [valid |-> FALSE, tierId |-> Undefined, tierType |-> Undefined,
           price |-> Undefined, currency |-> Undefined, name |-> Undefined,
           email |-> Undefined]

ProviderErrors == {"card_declined", "rate_limit"}
\* what an awaited provider call answers
ProviderResults ==
  [state : {"ok"}, err : {Null}] \cup [state : {"failed"}, err : ProviderErrors]
NotSettled == [state |-> "none", err |-> Null]

NoResp == [status |-> 0, error |-> Null, sessionId |-> Null]

\* NextResponse.json({ error: 'Missing required parameters' }, { status: 400 })
MissingResponse ==
  [status |-> 400, error |-> "Missing required parameters", sessionId |-> Null]

CatchResponse_Leak(thrown) ==
  [status |-> 500, error |-> thrown, sessionId |-> Null]

\* the catch block's response for a thrown value
CatchResponse(thrown) ==
  [status |-> 500, error |-> "Failed to create subscription", sessionId |-> Null]

\* NextResponse.json({ sessionId: session.id })
SessionResponse(id) == [status |-> 200, error |-> Null, sessionId |-> id]

MissingRequired_NoEmail(b) ==
  \/ ~Truthy(b.tierId)
  \/ ~Truthy(b.price)
  \/ ~Truthy(b.currency)
  \/ ~Truthy(b.name)

\* !tierId || !price || !currency || !name || !email
MissingRequired(b) ==
  \/ ~Truthy(b.tierId)
  \/ ~Truthy(b.price)
  \/ ~Truthy(b.currency)
  \/ ~Truthy(b.name)
  \/ ~Truthy(b.email)

isOneTime_ByType(b) == b.tierType = Str("partner")

\* tierId === 'partner-lifetime'
isOneTime(b) == b.tierId = Str(Lifetime)

CustomerCall == [api |-> "customers.create", mode |-> "", interval |-> ""]

\* the arguments of stripe.checkout.sessions.create
SessionCall(b) ==
  IF isOneTime(b)
    THEN [api |-> "checkout.sessions.create", mode |-> "payment", interval |-> "none"]
    ELSE [api |-> "checkout.sessions.create", mode |-> "subscription", interval |-> "year"]

\* a request arrives: parse, validate, start the customer creation
PostReceive ==
  /\ postPc \in {"idle", "responded"}
  /\ settled' = NotSettled
  /\ \E b \in Bodies :
       /\ req' = b
       /\ IF ~b.valid
            THEN /\ resp' = CatchResponse("TypeError")
                 /\ provider' = <<>>
                 /\ postPc' = "responded"
            ELSE IF MissingRequired(b)
                   THEN /\ resp' = MissingResponse
                        /\ provider' = <<>>
                        /\ postPc' = "responded"
                   ELSE /\ resp' = NoResp
                        /\ provider' = <<CustomerCall>>
                        /\ postPc' = "customer"

CustomerRejected_Ignored(r) == FALSE

\* await stripe.customers.create(...) throws
CustomerRejected(r) == r.state = "failed"

\* stripe.customers.create settles; currency.toLowerCase() is evaluated for
\* the arguments of the session creation
CustomerSettles ==
  /\ postPc = "customer"
  /\ \E r \in ProviderResults :
       /\ settled' = r
       /\ IF CustomerRejected(r)
            THEN /\ resp' = CatchResponse(r.err)
                 /\ postPc' = "responded"
                 /\ UNCHANGED provider
            ELSE IF req.currency.t # "string"
                   THEN /\ resp' = CatchResponse("TypeError")
                        /\ postPc' = "responded"
                        /\ UNCHANGED provider
                   ELSE /\ provider' = Append(provider, SessionCall(req))
                        /\ postPc' = "session"
                        /\ UNCHANGED resp
  /\ UNCHANGED req

SessionIds == {"cs_1"}

\* stripe.checkout.sessions.create settles
SessionSettles ==
  /\ postPc = "session"
  /\ \E r \in ProviderResults :
       /\ settled' = r
       /\ IF r.state = "ok"
            THEN \E id \in SessionIds : resp' = SessionResponse(id)
            ELSE resp' = CatchResponse(r.err)
  /\ postPc' = "responded"
  /\ UNCHANGED <<req, provider>>

\* --------------------------------------------------------- specifications
CFUnmounted ==
  /\ cfMounted = FALSE
  /\ offerType = "fixed_offer"
  /\ offerId = <<>>
  /\ hasOnSuccess = TRUE
  /\ cfStep = 1
  /\ loading = FALSE
  /\ error = Null
  /\ success = FALSE
  /\ formData = EmptyContact

\* BookingSummary mounted by its parent, the effect on [stops] has run
SummaryInit ==
  /\ flow = "summary"
  /\ stops \in 0..MaxStops
  /\ bsStep = 1
  /\ totalSteps = StepsFor(stops)
  /\ showCheckout = FALSE
  /\ contactInfo = EmptyContact
  /\ CFUnmounted

\* CheckoutForm mounted on its own
CheckoutInit ==
  /\ flow = "checkout"
  /\ stops = 0
  /\ bsStep = 1
  /\ totalSteps = 3
  /\ showCheckout = FALSE
  /\ contactInfo = EmptyContact
  /\ cfMounted = TRUE
  /\ offerType \in OfferTypes
  /\ offerId \in OfferIds
  /\ hasOnSuccess \in BOOLEAN
  /\ cfStep = 1
  /\ loading = FALSE
  /\ error = Null
  /\ success = FALSE
  /\ \E userInfo \in UserInfos, user \in Users :
       formData = InitFormData(userInfo, user)

\* the delegate operations
DelegateFns == {"createCheckoutSession", "sendPaymentRequest"}
CancelFns == {"onBack", "onClose"}

Made(cs, fns) == \E i \in 1..Len(cs) : cs[i] \in fns

NoHistory == [submitted |-> FALSE, called |-> FALSE]

\* bookkeeping of a step of the forms: whether handlePayment has been
\* started and whether a delegate operation has been called
Record ==
  hist' = [ submitted |-> hist.submitted \/ (op' = "cfNext" /\ cfStep = 2),
            called    |-> hist.called \/ Made(calls', DelegateFns) ]

\* a step of the wizards' navigation and submission
NavStep == Record /\ UNCHANGED <<postVars, priceVars, distVars, i18nVars, closed>>

\* a step of the pricing controls
PriceStep == Record /\ UNCHANGED <<postVars, distVars, i18nVars, closed>>

\* ------------------------------------------------------- i18n bootstrap
MaxEvaluations == 2

\* the locales of the bundled resources
Bundles == {"en", "de", "fr", "it", "zh", "th"}

\* fallbackLng
fallbackLng == "en"

\* what LanguageDetector can report: a bundled locale or another one
Detectable == Bundles \cup {"es"}

\* the language whose bundle answers a lookup
resolvedLanguage == IF language \in Bundles THEN language ELSE fallbackLng

\* the i18n singleton before the bootstrap module is evaluated
I18nInit ==
  /\ evaluations = 0
  /\ initCalls = 0
  /\ initRunning = <<>>
  /\ isInitialized = FALSE
  /\ language = Null

\* !i18n.isInitialized
InitGuard == ~isInitialized

\* one evaluation of the bootstrap module body
EvaluateBootstrap ==
  /\ evaluations < MaxEvaluations
  /\ evaluations' = evaluations + 1
  /\ IF InitGuard
       THEN /\ initCalls' = initCalls + 1
            /\ \E lng \in Detectable : initRunning' = Append(initRunning, lng)
       ELSE UNCHANGED <<initCalls, initRunning>>
  /\ UNCHANGED <<isInitialized, language>>

\* sequence s without its i-th element
RemoveAt(s, i) == [j \in 1..(Len(s) - 1) |-> IF j < i THEN s[j] ELSE s[j + 1]]

\* an initialization started by init completes
InitCompletes ==
  /\ \E i \in 1..Len(initRunning) :
       /\ language' = initRunning[i]
       /\ initRunning' = RemoveAt(initRunning, i)
  /\ isInitialized' = TRUE
  /\ UNCHANGED <<evaluations, initCalls>>

\* pricing state of a mounted BookingSummary
PriceInit ==
  /\ basePrice \in BasePrices
  /\ selectedServices = NoServices
  /\ selectedCurrency = currencies[1].code
  /\ showCurrencyDropdown = FALSE

\* no BookingSummary: its pricing state plays no part
PriceIdle ==
  /\ basePrice = 0
  /\ selectedServices = NoServices
  /\ selectedCurrency = currencies[1].code
  /\ showCurrencyDropdown = FALSE

\* the itinerary plays no part
DistIdle ==
  /\ route = [origin |-> Paris, stops |-> <<>>, destination |-> London,
              isReturn |-> FALSE]
  /\ totalDistance = calculateTotalDistance(Paris, <<>>, London, FALSE)

UIInit ==
  /\ DistIdle
  /\ I18nInit
  /\ closed = FALSE
  /\ \/ SummaryInit /\ PriceInit
     \/ CheckoutInit /\ PriceIdle
  /\ pending = NoCall
  /\ op = "mount"
  /\ out = NoOutcome
  /\ calls = <<>>
  /\ hist = NoHistory

PostInit ==
  /\ postPc = "idle"
  /\ req = NoBody
  /\ provider = <<>>
  /\ settled = NotSettled
  /\ resp = NoResp

Init == UIInit /\ PostInit

Next ==
  \/ StopsChange /\ NavStep
  \/ BSnextStep /\ NavStep
  \/ handleRequestQuote /\ NavStep
  \/ BSprevStep /\ NavStep
  \/ handleContactInfoChange /\ NavStep
  \/ handleInputChange /\ NavStep
  \/ CFnextStep /\ NavStep
  \/ CFprevStep /\ NavStep
  \/ SuccessClose /\ NavStep
  \/ DelegateResolve /\ NavStep

Spec == Init /\ [][Next]_vars

\* the POST handler alone, the forms not mounted
InitPost ==
  /\ DistIdle
  /\ SummaryInit
  /\ stops = 0
  /\ PriceIdle
  /\ pending = NoCall
  /\ op = "mount"
  /\ out = NoOutcome
  /\ calls = <<>>
  /\ hist = NoHistory
  /\ PostInit
  /\ I18nInit
  /\ closed = FALSE

NextPost ==
  \/ PostReceive /\ UNCHANGED <<uiVars, hist, priceVars, distVars, i18nVars, closed>>
  \/ CustomerSettles /\ UNCHANGED <<uiVars, hist, priceVars, distVars, i18nVars, closed>>
  \/ SessionSettles /\ UNCHANGED <<uiVars, hist, priceVars, distVars, i18nVars, closed>>

SpecPost == InitPost /\ [][NextPost]_vars

\* the booking-summary wizard with its pricing controls, up to the hand-over
\* to the checkout form
InitPrice ==
  /\ DistIdle
  /\ SummaryInit
  /\ PriceInit
  /\ pending = NoCall
  /\ op = "mount"
  /\ out = NoOutcome
  /\ calls = <<>>
  /\ hist = NoHistory
  /\ PostInit
  /\ I18nInit
  /\ closed = FALSE

NextPrice ==
  \/ StopsChange /\ NavStep
  \/ BSnextStep /\ NavStep
  \/ BSprevStep /\ NavStep
  \/ handleContactInfoChange /\ NavStep
  \/ toggleCurrencyDropdown /\ PriceStep
  \/ selectCurrency /\ PriceStep
  \/ handleClickOutside /\ PriceStep
  \/ handleServiceToggle /\ PriceStep

SpecPrice == InitPrice /\ [][NextPrice]_vars

\* BookingSummary rendered for an itinerary, and re-rendered as its parent
\* changes the itinerary
InitDist ==
  /\ route \in Routes
  /\ totalDistance = calculateTotalDistance(route.origin, route.stops,
                                            route.destination, route.isReturn)
  /\ SummaryInit
  /\ stops = Len(route.stops)
  /\ PriceIdle
  /\ pending = NoCall
  /\ op = "mount"
  /\ out = NoOutcome
  /\ calls = <<>>
  /\ hist = NoHistory
  /\ PostInit
  /\ I18nInit
  /\ closed = FALSE

NextDist ==
  \/ OriginChange
  \/ DestinationChange
  \/ StopListChange
  \/ ReturnChange

SpecDist == InitDist /\ [][NextDist]_vars

\* the i18n bootstrap alone, the forms not mounted
InitI18n ==
  /\ DistIdle
  /\ SummaryInit
  /\ stops = 0
  /\ PriceIdle
  /\ pending = NoCall
  /\ op = "mount"
  /\ out = NoOutcome
  /\ calls = <<>>
  /\ hist = NoHistory
  /\ PostInit
  /\ I18nInit
  /\ closed = FALSE

NextI18n ==
  \/ EvaluateBootstrap /\ UNCHANGED <<uiVars, postVars, hist, priceVars, distVars, closed>>
  \/ InitCompletes /\ UNCHANGED <<uiVars, postVars, hist, priceVars, distVars, closed>>

SpecI18n == InitI18n /\ [][NextI18n]_vars

\* bookkeeping of a step of the forms: whether the close callback of the
\* checkout form now mounted has been invoked while its delegate call was
\* pending
Closing ==
  closed' = IF op' = "requestQuote"
              THEN FALSE
              ELSE closed \/ (op' = "cfPrev" /\ Made(calls', CancelFns)
                              /\ pending # NoCall)

CloseStep ==
  Record /\ Closing /\ UNCHANGED <<postVars, priceVars, distVars, i18nVars>>

\* the forms, with the cancellations made during a pending call recorded
NextClose ==
  \/ StopsChange /\ CloseStep
  \/ BSnextStep /\ CloseStep
  \/ handleRequestQuote /\ CloseStep
  \/ BSprevStep /\ CloseStep
  \/ handleContactInfoChange /\ CloseStep
  \/ handleInputChange /\ CloseStep
  \/ CFnextStep /\ CloseStep
  \/ CFprevStep /\ CloseStep
  \/ SuccessClose /\ CloseStep
  \/ DelegateResolve /\ CloseStep

SpecClose == Init /\ [][NextClose]_vars

\* both forms with the pricing controls
NextAll ==
  \/ StopsChange /\ NavStep
  \/ BSnextStep /\ NavStep
  \/ handleRequestQuote /\ NavStep
  \/ BSprevStep /\ NavStep
  \/ handleContactInfoChange /\ NavStep
  \/ handleInputChange /\ NavStep
  \/ CFnextStep /\ NavStep
  \/ CFprevStep /\ NavStep
  \/ SuccessClose /\ NavStep
  \/ DelegateResolve /\ NavStep
  \/ toggleCurrencyDropdown /\ PriceStep
  \/ selectCurrency /\ PriceStep
  \/ handleClickOutside /\ PriceStep
  \/ handleServiceToggle /\ PriceStep

SpecAll == Init /\ [][NextAll]_vars

\* ------------------------------------------------------------ properties

\* C1: in the booking-summary wizard 1 <= currentStep <= totalSteps in every
\* reachable state, totalSteps being 4 with stops and 3 without; in the
\* checkout form 1 <= currentStep <= 2.
C1_StepInRange ==
  /\ flow = "summary" =>
       /\ 1 <= bsStep
       /\ bsStep <= totalSteps
       /\ stops > 0 => totalSteps = 4
       /\ stops = 0 => totalSteps = 3
  /\ cfMounted => (1 <= cfStep /\ cfStep <= 2)

\* the forward button of the booking-summary wizard: Next or Request Quote
BSForward == BSnextStep \/ handleRequestQuote

\* C2: while the wizard is displayed, the forward action (Next or Request
\* Quote) is possible exactly when the step is not 3 or name, email and
\* phone are all non-empty: the contact fields gate step 3 and no other step.
C2_ContactGate ==
  (flow = "summary" /\ ~showCheckout) =>
     ((ENABLED BSForward) <=> (bsStep = 3 => AllFilled(contactInfo)))

C2_Witness ==
  /\ flow = "summary"
  /\ op = "requestQuote"
  /\ bsStep = 3
  /\ AllFilled(contactInfo)

\* C3 as stated: on step 1 of the checkout form next is impossible with the
\* required fields all empty and possible with all of them filled, and it
\* moves currentStep to 2.
C3_Original ==
  /\ [](cfMounted /\ cfStep = 1 =>
          /\ AllEmpty(formData) => ~ENABLED CFnextStep
          /\ AllFilled(formData) => ENABLED CFnextStep)
  /\ [][op' = "cfNext" /\ cfStep = 1 => cfStep' = 2]_vars

\* C3 amended: on step 1 of the checkout form next is impossible with the
\* required fields all empty; with all of them filled it is possible while
\* no submission is pending (loading false) and the success display is not
\* showing, and it moves currentStep to 2.
C3_NextGate ==
  /\ [](cfMounted /\ cfStep = 1 =>
          /\ AllEmpty(formData) => ~ENABLED CFnextStep
          /\ (AllFilled(formData) /\ ~loading /\ ~success) => ENABLED CFnextStep)
  /\ [][op' = "cfNext" /\ cfStep = 1 => cfStep' = 2]_vars

C3_Witness ==
  /\ cfMounted
  /\ op = "cfNext"
  /\ cfStep = 2
  /\ AllFilled(formData)
  /\ pending = NoCall

\* the cancel callback of the wizard that is the root of the flow
CancelCallback == IF flow = "summary" THEN "onBack" ELSE "onClose"

\* C4: in both wizards back at step 1 invokes the cancel callback exactly
\* once and leaves currentStep at 1; back at a step greater than 1 decrements
\* currentStep by one and invokes nothing.
C4_Back ==
  [][ /\ op' = "bsPrev" =>
           IF bsStep = 1
             THEN bsStep' = 1 /\ calls' = <<"onBack">>
             ELSE bsStep' = bsStep - 1 /\ calls' = <<>>
      /\ op' = "cfPrev" =>
           IF cfStep = 1
             THEN cfStep' = 1 /\ calls' = <<CancelCallback>>
             ELSE cfStep' = cfStep - 1 /\ calls' = <<>> ]_vars

C4_Witness ==
  /\ flow = "summary"
  /\ cfMounted
  /\ op = "cfPrev"
  /\ cfStep = 1
  /\ calls = <<"onBack">>

\* C5: every transition changes currentStep of either wizard by +1, -1 or
\* not at all.
C5_NoJump ==
  [][ /\ bsStep' - bsStep \in {-1, 0, 1}
      /\ cfStep' - cfStep \in {-1, 0, 1} ]_vars

C5_Witness ==
  /\ flow = "summary"
  /\ op = "bsNext"
  /\ bsStep = 4

\* C6: in the checkout form, once the delegate call of a submission has
\* resolved the form is in the success state or shows an error, and
\* currentStep never exceeds 2.
C6_Terminal ==
  /\ [](cfMounted => cfStep <= 2)
  /\ [][ (flow = "checkout" /\ pending # NoCall /\ pending' = NoCall)
           => (success' \/ error' # Null) ]_vars

\* C7: in the composed flow a quote request that returns success leaves the
\* success display showing.
C7_SuccessDisplayed ==
  [][ ( /\ flow = "summary"
        /\ op' = "resolve"
        /\ out'.kind = "resolved" /\ out'.success /\ out'.error = Null )
        => (showCheckout' /\ cfMounted' /\ success') ]_vars

\* offerId begins with 'custom-'
IsCustomId(id) ==
  /\ Len(id) >= 7
  /\ id[1] = "c" /\ id[2] = "u" /\ id[3] = "s" /\ id[4] = "t"
  /\ id[5] = "o" /\ id[6] = "m" /\ id[7] = "-"

\* C8: a submission calls createCheckoutSession exactly when offerType is
\* fixed_offer with an offerId not starting with 'custom-' or offerType is
\* empty_leg, calls sendPaymentRequest otherwise, and makes one call only.
C8_Routing ==
  [][ (op' = "cfNext" /\ cfStep = 2) =>
        IF \/ offerType = "fixed_offer" /\ ~IsCustomId(offerId)
           \/ offerType = "empty_leg"
          THEN calls' = <<"createCheckoutSession">>
          ELSE calls' = <<"sendPaymentRequest">> ]_vars

C8_Witness ==
  /\ op = "cfNext"
  /\ offerType = "fixed_offer"
  /\ IsCustomId(offerId)
  /\ flow = "checkout"
  /\ calls = <<"sendPaymentRequest">>

RequiredParams == {"tierId", "price", "currency", "name", "email"}

C10_Generic500 ==
  [][ (postPc \in {"customer", "session"} /\ settled'.state = "failed") =>
        /\ postPc' = "responded"
        /\ resp' = [status |-> 500, error |-> "Failed to create subscription",
                    sessionId |-> Null] ]_vars

C10_Witness ==
  /\ postPc = "responded"
  /\ settled.state = "failed"
  /\ Len(provider) = 2
  /\ resp.status = 500

\* C11: the session created is one-time (mode 'payment', no recurring
\* interval) exactly when tierId is 'partner-lifetime' and otherwise a yearly
\* subscription, whatever the other fields of the request are.
C11_ModeByTier ==
  Len(provider) = 2 =>
    IF req.tierId.t = "string" /\ req.tierId.s = "partner-lifetime"
      THEN provider[2].mode = "payment" /\ provider[2].interval = "none"
      ELSE provider[2].mode = "subscription" /\ provider[2].interval = "year"

C11_Witness ==
  /\ Len(provider) = 2
  /\ provider[2].mode = "payment"
  /\ req.tierType = Undefined
  /\ resp.status = 200

\* the services whose flag is set
Selected == { sv \in Services : selectedServices[sv] }

\* the catalogue's unit price of a service
UnitPrice(sv) ==
  CASE sv = "airportTransfer" -> 250
    [] sv = "catering" -> 350
    [] sv = "concierge" -> 200
    [] sv = "hotelBooking" -> 150

RECURSIVE SumPrices(_)
SumPrices(S) ==
  IF S = {} THEN 0
  ELSE LET x == CHOOSE y \in S : TRUE
       IN UnitPrice(x) + SumPrices(S \ {x})

\* amount is an integer nearest to the value given in hundredths
Nearest(amount, hundredths) ==
  /\ 2 * (100 * amount - hundredths) <= 100
  /\ 2 * (hundredths - 100 * amount) <= 100

\* C12: the displayed total is (basePrice + the prices of the selected
\* services) times the selected currency's rate, rounded to an integer, in
\* the selected currency.
C12_Total ==
  /\ displayedTotal.currency = selectedCurrency
  /\ Nearest(displayedTotal.amount,
             (basePrice + SumPrices(Selected)) * CurrencyOf(selectedCurrency).rate)

C12_Witness ==
  /\ op = "currency"
  /\ selectedCurrency = "GBP"
  /\ Selected = {"catering"}
  /\ basePrice = 10000
  /\ displayedTotal.amount = 8798

\* C13: the displayed range is floor(total * 0.9) to ceil(total * 1.1) with
\* total = basePrice + the prices of the selected services, each bound
\* converted by the selected currency's rate.
C13_Range ==
  LET total == basePrice + SumPrices(Selected)
      rate == CurrencyOf(selectedCurrency).rate
  IN /\ Nearest(priceRange[1].amount, ((total * 9) \div 10) * rate)
     /\ Nearest(priceRange[2].amount, ((total * 11 + 9) \div 10) * rate)

\* C14: the additional-services cost is the sum of the unit prices of the
\* flags that are set; with none set the total is basePrice, with all four
\* basePrice + 950; a toggle flips exactly one flag.
C14_Services ==
  /\ [](/\ additionalServicesCost = SumPrices(Selected)
        /\ Selected = {} => totalPrice = basePrice
        /\ Selected = Services => totalPrice = basePrice + 950)
  /\ [][op' = "toggle" =>
          Cardinality({ sv \in Services :
                          selectedServices'[sv] # selectedServices[sv] }) = 1]_vars

C14_Witness ==
  /\ op = "toggle"
  /\ Selected = Services
  /\ totalPrice = basePrice + 950

\* every point of the route has both coordinates
AllValid(r) ==
  /\ r.origin.hasLat /\ r.origin.hasLng
  /\ r.destination.hasLat /\ r.destination.hasLng
  /\ \A i \in 1..Len(r.stops) : r.stops[i].hasLat /\ r.stops[i].hasLng

OneWay(r) == calculateTotalDistance(r.origin, r.stops, r.destination, FALSE)
RoundTrip(r) == calculateTotalDistance(r.origin, r.stops, r.destination, TRUE)

\* C15 as stated: with valid coordinates the one-way distance is >= 0 and the
\* return distance is exactly twice the one-way distance.
C15_Original ==
  AllValid(route) =>
    /\ ~totalDistance.nan
    /\ OneWay(route).km >= 0
    /\ RoundTrip(route).km = 2 * OneWay(route).km

\* C15 amended: with valid coordinates the one-way distance is >= 0 and the
\* return distance, the rounding of twice the unrounded sum, is within one
\* kilometre of twice the one-way distance.
C15_RoundTrip ==
  AllValid(route) =>
    /\ ~totalDistance.nan
    /\ totalDistance = IF route.isReturn THEN RoundTrip(route) ELSE OneWay(route)
    /\ OneWay(route).km >= 0
    /\ RoundTrip(route).km - 2 * OneWay(route).km \in {-1, 0, 1}

C15_Witness ==
  /\ op = "props"
  /\ route.isReturn
  /\ route.origin = Paris
  /\ route.destination = London
  /\ route.stops = <<>>
  /\ totalDistance.km = 687

\* both coordinates of both points are present
PairPresent(p, q) == p.hasLat /\ p.hasLng /\ q.hasLat /\ q.hasLng

\* the sum of the segment lengths over the first k pairs with all
\* coordinates present
RECURSIVE PresentSum(_, _)
PresentSum(points, k) ==
  IF k = 0 THEN 0
  ELSE PresentSum(points, k - 1)
       + (IF PairPresent(points[k], points[k + 1])
            THEN Haversine(points[k], points[k + 1])
            ELSE 0)

\* C16: the distance is the sum over the consecutive pairs of
\* [origin, ...stops, destination] in which both points have latitude and
\* longitude (0 included); other pairs contribute zero and raise no error.
C16_SkipMissing ==
  LET points == <<route.origin>> \o route.stops \o <<route.destination>>
      sum == PresentSum(points, Len(points) - 1)
  IN /\ ~totalDistance.nan
     /\ totalDistance.km =
          ((IF route.isReturn THEN 2 * sum ELSE sum) + 500) \div 1000

\* C17: a delegate operation is called only by the next action taken on the
\* final step of the checkout form; no step change, field edit, service
\* toggle or currency selection calls one, and none is called before a
\* submission has been started.
C17_NoEarlyCall ==
  /\ [][Made(calls', DelegateFns) =>
          (op' = "cfNext" /\ cfMounted /\ cfStep = 2)]_vars
  /\ [](hist.called => hist.submitted)

C17_Witness ==
  /\ op = "cfNext"
  /\ Made(calls, DelegateFns)
  /\ hist.submitted
  /\ Selected # {}
  /\ selectedCurrency # "EUR"

\* the delegate call returned an error or threw
Failed(o) ==
  \/ o.kind \in {"rejectedError", "rejectedOther"}
  \/ o.kind = "resolved" /\ o.error # Null

\* C18: when the delegate call fails, an error message is set, success stays
\* false, currentStep and formData are unchanged, loading is false again, the
\* form can be edited and resubmitted, and no delegate call is made until the
\* user submits again.
C18_FailureHandled ==
  /\ [][(op' = "resolve" /\ Failed(out')) =>
          /\ cfMounted'
          /\ error' # Null
          /\ error' \in DelegateMsgs \cup {GenericMsg}
          /\ ~success'
          /\ cfStep' = cfStep
          /\ formData' = formData
          /\ ~loading'
          /\ pending' = NoCall
          /\ ~Made(calls', DelegateFns)]_vars
  /\ []((op = "resolve" /\ Failed(out)) =>
          /\ cfStep = 2 => ENABLED CFnextStep
          /\ cfStep = 1 => ENABLED handleInputChange)
  /\ [][Made(calls', DelegateFns) => op' = "cfNext"]_vars

C18_Witness ==
  /\ op = "resolve"
  /\ out.kind = "rejectedOther"
  /\ error = GenericMsg
  /\ ~loading
  /\ ~success
  /\ cfStep = 2

\* C19: loading is true whenever a delegate call is pending, the submit
\* action is disabled while loading, a call is started only when none is
\* pending, and loading is false once the call has resolved.
C19_SingleFlight ==
  /\ [](pending # NoCall => (cfMounted /\ loading))
  /\ []((cfMounted /\ loading) => ~ENABLED CFnextStep)
  /\ [][Made(calls', DelegateFns) => (pending = NoCall /\ pending' # NoCall)]_vars
  /\ [][(pending # NoCall /\ pending' = NoCall) => ~loading']_vars

C19_Witness ==
  /\ op = "cfPrev"
  /\ pending # NoCall
  /\ loading
  /\ cfStep = 1

\* C20: back is available at every step of either wizard and leads step by
\* step to step 1, where it cancels; a back action calls no delegate
\* operation and leaves the submission state alone; as long as no submission
\* has been started no delegate operation has been called.
C20_Abandon ==
  /\ [](flow = "summary" => ENABLED BSprevStep)
  /\ []((cfMounted /\ ~success) => ENABLED CFprevStep)
  /\ [][op' = "bsPrev" =>
          /\ bsStep' = (IF bsStep > 1 THEN bsStep - 1 ELSE 1)
          /\ ~Made(calls', DelegateFns)
          /\ pending' = pending
          /\ hist' = hist]_vars
  /\ [][op' = "cfPrev" =>
          /\ cfStep' = (IF cfStep > 1 THEN cfStep - 1 ELSE 1)
          /\ ~Made(calls', DelegateFns)
          /\ pending' = pending
          /\ hist' = hist]_vars
  /\ [](~hist.submitted => ~hist.called)

C20_Witness ==
  /\ flow = "summary"
  /\ op = "bsPrev"
  /\ bsStep = 1
  /\ calls = <<"onBack">>
  /\ AllFilled(contactInfo)
  /\ ~hist.submitted
  /\ ~hist.called

\* C21: the i18n singleton is initialized at most once: once the bootstrap
\* module body has been evaluated, however many times and however the
\* evaluations interleave with the completion of an initialization, init has
\* been invoked exactly once, and it is never invoked after the instance is
\* initialized.
C21_InitOnce ==
  /\ [](evaluations >= 1 => initCalls = 1)
  /\ [][isInitialized => initCalls' = initCalls]_vars

\* name, email and phone of a contact record are all non-empty
NonEmptyContact(d) == d.name # "" /\ d.email # "" /\ d.phone # ""

\* C22: every call to createCheckoutSession or sendPaymentRequest, in either
\* flow, carries the form data as it is at the submission, with non-empty
\* name, email and phone.
C22_NoEmptyContact ==
  /\ [][Made(calls', DelegateFns) =>
          (pending'.data = formData /\ NonEmptyContact(pending'.data))]_vars
  /\ [](pending # NoCall => NonEmptyContact(pending.data))

C22_Witness ==
  /\ op = "cfNext"
  /\ Made(calls, DelegateFns)
  /\ pending # NoCall
  /\ pending.data = formData
  /\ NonEmptyContact(formData)

\* C23: a submission made from the booking-summary wizard goes to
\* sendPaymentRequest: its offerType is 'fixed_offer' and its offerId begins
\* with 'custom-', and createCheckoutSession is never called in that flow.
C23_SummaryQuotePath ==
  /\ [][(flow = "summary" /\ Made(calls', DelegateFns)) =>
          calls' = <<"sendPaymentRequest">>]_vars
  /\ []((flow = "summary" /\ cfMounted) =>
          (offerType = "fixed_offer" /\ startsWith(offerId, CustomPrefix)))
  /\ []((flow = "summary" /\ pending # NoCall) =>
          pending.fn = "sendPaymentRequest")

C23_Witness ==
  /\ flow = "summary"
  /\ op = "cfNext"
  /\ calls = <<"sendPaymentRequest">>
  /\ pending.offerType = "fixed_offer"
  /\ startsWith(pending.offerId, CustomPrefix)

\* C24: while BookingSummary shows the checkout form, the price it passes is
\* the total expressed in the currency whose code it passes, that is
\* (basePrice + service cost) times that currency's rate up to rounding, and
\* the checkout form's price summary shows the amount the wizard showed.
C24_HandOver ==
  (flow = "summary" /\ showCheckout) =>
    /\ CheckoutCurrency = selectedCurrency
    /\ Nearest(CheckoutPrice,
               (basePrice + SumPrices(Selected)) * CurrencyOf(CheckoutCurrency).rate)
    /\ priceSummary.amount = displayedTotal.amount

\* the provider calls of the current request made through this api
CallsOf(api) == { i \in 1..Len(provider) : provider[i].api = api }

\* C25: for each request the POST handler makes at most one customer
\* creation and at most one session creation, the session creation only after
\* the customer creation has succeeded; a response carrying sessionId implies
\* that both calls were made and succeeded, and a 400 response implies that
\* neither was made.
C25_ProviderCalls ==
  /\ [](/\ Cardinality(CallsOf("customers.create")) <= 1
        /\ Cardinality(CallsOf("checkout.sessions.create")) <= 1
        /\ CallsOf("checkout.sessions.create") # {} =>
             (CallsOf("customers.create") = {1}
              /\ CallsOf("checkout.sessions.create") = {2}))
  /\ [][(CallsOf("checkout.sessions.create") = {}
          /\ CallsOf("checkout.sessions.create")' # {}) =>
          (postPc = "customer" /\ settled'.state = "ok")]_vars
  /\ [](resp.sessionId # Null =>
          (Len(provider) = 2 /\ postPc = "responded" /\ settled.state = "ok"))
  /\ [](resp.status = 400 => provider = <<>>)

C25_Witness ==
  /\ postPc = "responded"
  /\ resp.sessionId # Null
  /\ resp.status = 200
  /\ CallsOf("customers.create") = {1}
  /\ CallsOf("checkout.sessions.create") = {2}
  /\ settled.state = "ok"

\* C26: once the checkout form's close callback has been invoked while a
\* delegate call was pending, onSuccess is not invoked afterwards and the
\* form's success state is not set.
C26_CloseRespected ==
  /\ [][closed' => ~Made(calls', {"onSuccess"})]_vars
  /\ [](closed => ~success)

====
